---- MODULE Spec2Model ----
(***************************************************************************)
(* Model of the az CLI "show-deployments" extension:                       *)
(*   cli_utils.py          duration_to_timedelta, timestamp_to_datetime,   *)
(*                         Operation, Deployment, DeploymentOutput         *)
(*   watch_deployments.py  watch_deployment                                *)
(*                                                                         *)
(* Python str values are sequences of one-character strings.  JSON values  *)
(* are typed pairs (JNull, JStr, ...).  A call either returns a value      *)
(* (Ok) or raises (Raise); the exception class is kept.                    *)
(***************************************************************************)
EXTENDS Integers, Sequences, FiniteSets, TLC

VARIABLES called, arg, ret

vars == <<called, arg, ret>>

(***************************************************************************)
(* Bounds of the model.                                                    *)
(***************************************************************************)
\* longest text between the "PT" and the "S" of a generated duration string
MaxBody == 5
\* longest "details" sequence of a generated statusMessage
MaxDetails == 2
\* longest operation list the CLI returns to watch_deployment
MaxOps == 2

(***************************************************************************)
(* Call results.                                                           *)
(***************************************************************************)
Ok(v) == [ok |-> TRUE, val |-> v]

Raise(e, m) == [ok |-> FALSE, exc |-> e, msg |-> m]

\* the statements after a call: they run on the value it returned; an
\* exception it raised leaves the caller too
Then(result, Rest(_)) == IF ~result.ok THEN result ELSE Rest(result.val)

(***************************************************************************)
(* Text helpers.                                                           *)
(***************************************************************************)
Digits == {"0", "1", "2", "3", "4", "5", "6", "7", "8", "9"}

DigitVal(c) ==
    CASE c = "0" -> 0 [] c = "1" -> 1 [] c = "2" -> 2 [] c = "3" -> 3
      [] c = "4" -> 4 [] c = "5" -> 5 [] c = "6" -> 6 [] c = "7" -> 7
      [] c = "8" -> 8 [] c = "9" -> 9

AllDigits(s) == \A i \in 1..Len(s) : s[i] \in Digits

RECURSIVE DecimalValue(_)
\* value of a run of decimal digits, 0 for the empty run
DecimalValue(s) ==
    IF Len(s) = 0 THEN 0
    ELSE 10 * DecimalValue(SubSeq(s, 1, Len(s) - 1)) + DigitVal(s[Len(s)])

RECURSIVE Pow10(_)
Pow10(n) == IF n = 0 THEN 1 ELSE 10 * Pow10(n - 1)

RECURSIVE DigitRun(_, _)
\* length of the longest run of digits of s that starts at position i
DigitRun(s, i) ==
    IF i <= Len(s) /\ s[i] \in Digits THEN 1 + DigitRun(s, i + 1) ELSE 0

(***************************************************************************)
(* re.match pieces used by duration_to_timedelta.                          *)
(***************************************************************************)
\* `$` matches at the end of the string and also just before a newline that
\* ends it: the text the rest of the pattern has to cover
BeforeDollar(s) ==
    IF Len(s) > 0 /\ s[Len(s)] = "\n" THEN SubSeq(s, 1, Len(s) - 1) ELSE s

\* the group (?P<seconds>\d*.\d*) covers g: digits, ONE character of any
\* kind but a newline (the dot is not escaped), digits
MatchesSecondsGroup(g) ==
    \E i \in 1..Len(g) :
        /\ g[i] # "\n"
        /\ AllDigits(SubSeq(g, 1, i - 1))
        /\ AllDigits(SubSeq(g, i + 1, Len(g)))

NoMatch == [matched |-> FALSE]

\* re.match(r'^PT(?P<seconds>\d*.\d*)S$', duration)
MatchSeconds(duration) ==
    LET t == BeforeDollar(duration)
        n == Len(t)
    IN  IF /\ n >= 3
           /\ t[1] = "P" /\ t[2] = "T" /\ t[n] = "S"
           /\ MatchesSecondsGroup(SubSeq(t, 3, n - 1))
        THEN [matched |-> TRUE, seconds |-> SubSeq(t, 3, n - 1)]
        ELSE NoMatch

\* re.match(r'^PT(?P<minutes>\d*)M(?P<seconds>\d*.\d*)S$', duration)
MatchMinutes(duration) ==
    LET t == BeforeDollar(duration)
        n == Len(t)
        m == IF n >= 2 THEN DigitRun(t, 3) ELSE 0
    IN  IF /\ n >= 4 + m
           /\ t[1] = "P" /\ t[2] = "T" /\ t[n] = "S"
           /\ t[3 + m] = "M"
           /\ MatchesSecondsGroup(SubSeq(t, 4 + m, n - 1))
        THEN [matched |-> TRUE,
              minutes |-> SubSeq(t, 3, 2 + m),
              seconds |-> SubSeq(t, 4 + m, n - 1)]
        ELSE NoMatch

\* re.match(r'^PT(?P<hours>\d*)H(?P<minutes>\d*)M(?P<seconds>\d*.\d*)S$', duration)
MatchHours(duration) ==
    LET t == BeforeDollar(duration)
        n == Len(t)
        h == IF n >= 2 THEN DigitRun(t, 3) ELSE 0
        m == IF n >= 3 + h THEN DigitRun(t, 4 + h) ELSE 0
    IN  IF /\ n >= 5 + h + m
           /\ t[1] = "P" /\ t[2] = "T" /\ t[n] = "S"
           /\ t[3 + h] = "H"
           /\ t[4 + h + m] = "M"
           /\ MatchesSecondsGroup(SubSeq(t, 5 + h + m, n - 1))
        THEN [matched |-> TRUE,
              hours |-> SubSeq(t, 3, 2 + h),
              minutes |-> SubSeq(t, 4 + h, 3 + h + m),
              seconds |-> SubSeq(t, 5 + h + m, n - 1)]
        ELSE NoMatch

(***************************************************************************)
(* float(), int() and timedelta().                                         *)
(* A float is kept as sign, whole part and the digits after the point.     *)
(* The texts reaching float() here are digits, one character, digits; of   *)
(* the characters the model generates only ".", "-" and "+" can make such  *)
(* a text a float literal.                                                 *)
(***************************************************************************)
float(text) ==
    IF Len(text) > 0 /\ AllDigits(text)
    THEN Ok([neg |-> FALSE, whole |-> DecimalValue(text), frac |-> <<>>])
    ELSE
      LET i == CHOOSE k \in 1..Len(text) : text[k] \notin Digits
          left == SubSeq(text, 1, i - 1)
          right == SubSeq(text, i + 1, Len(text))
      IN  IF text[i] = "." /\ Len(left) + Len(right) > 0
          THEN Ok([neg |-> FALSE, whole |-> DecimalValue(left), frac |-> right])
          ELSE IF text[i] \in {"-", "+"} /\ Len(left) = 0 /\ Len(right) > 0
          THEN Ok([neg |-> text[i] = "-", whole |-> DecimalValue(right),
                   frac |-> <<>>])
          ELSE Raise("ValueError", <<"could not convert string to float", text>>)

\* int() of a \d* group: only the empty text is no literal
int(text) ==
    IF Len(text) > 0
    THEN Ok(DecimalValue(text))
    ELSE Raise("ValueError", <<"invalid literal for int() with base 10", text>>)

\* microseconds of the digits after the point, rounded half to even as
\* timedelta rounds the fractional second
FracMicroseconds(frac) ==
    LET k == Len(frac)
        n == DecimalValue(frac)
    IN  IF k <= 6 THEN n * Pow10(6 - k)
        ELSE LET d == Pow10(k - 6)
                 q == n \div d
                 r == n % d
             IN  IF 2 * r > d \/ (2 * r = d /\ q % 2 = 1) THEN q + 1 ELSE q

\* timedelta(hours = hours, minutes = minutes, seconds = seconds), normalised
\* as Python keeps it: 0 <= seconds < 86400, 0 <= microseconds < 1000000
timedelta(hours, minutes, seconds) ==
    LET us == FracMicroseconds(seconds.frac)
        \* seconds = sw + su / 1000000 with 0 <= su < 1000000
        sw == IF seconds.neg
              THEN (IF us > 0 THEN -seconds.whole - 1 ELSE -seconds.whole)
              ELSE seconds.whole + (us \div 1000000)
        su == IF seconds.neg /\ us > 0 THEN 1000000 - us ELSE us % 1000000
        total == hours * 3600 + minutes * 60 + sw
    IN  [days |-> total \div 86400,
         seconds |-> total % 86400,
         microseconds |-> su]

(***************************************************************************)
(* duration_to_timedelta                                                   *)
(***************************************************************************)
duration_to_timedelta(duration) ==
    LET m1 == MatchSeconds(duration)
        m2 == MatchMinutes(duration)
        m3 == MatchHours(duration)
    IN  IF m1.matched THEN
            LET seconds == float(m1.seconds)
            IN  IF seconds.ok THEN Ok(timedelta(0, 0, seconds.val)) ELSE seconds
        ELSE IF m2.matched THEN
            LET minutes == int(m2.minutes)
                seconds == float(m2.seconds)
            IN  IF ~minutes.ok THEN minutes
                ELSE IF ~seconds.ok THEN seconds
                ELSE Ok(timedelta(0, minutes.val, seconds.val))
        ELSE IF m3.matched THEN
            LET hours == int(m3.hours)
                minutes == int(m3.minutes)
                seconds == float(m3.seconds)
            IN  IF ~hours.ok THEN hours
                ELSE IF ~minutes.ok THEN minutes
                ELSE IF ~seconds.ok THEN seconds
                ELSE Ok(timedelta(hours.val, minutes.val, seconds.val))
        ELSE Raise("ValueError", <<"Unhandled duration format", duration>>)

(***************************************************************************)
(* datetime: strptime(timestamp, '%Y-%m-%dT%H:%M:%S.%f+00:00') and          *)
(* datetime - timedelta.  A datetime is kept as its proleptic Gregorian    *)
(* ordinal (date.toordinal()), its second of the day and its microsecond.  *)
(***************************************************************************)
IsLeap(y) == y % 4 = 0 /\ (y % 100 # 0 \/ y % 400 = 0)

DaysInMonth(y, m) ==
    IF m = 2 THEN (IF IsLeap(y) THEN 29 ELSE 28)
    ELSE IF m \in {4, 6, 9, 11} THEN 30 ELSE 31

RECURSIVE DaysBeforeMonth(_, _)
DaysBeforeMonth(y, m) ==
    IF m = 1 THEN 0 ELSE DaysBeforeMonth(y, m - 1) + DaysInMonth(y, m - 1)

\* date(y, m, d).toordinal(): 1 for 0001-01-01
ToOrdinal(y, m, d) ==
    LET p == y - 1
    IN  p * 365 + (p \div 4) - (p \div 100) + (p \div 400)
          + DaysBeforeMonth(y, m) + d

\* the digits of a directive starting at position i: the run of at most
\* `most` digits (every directive is followed by a literal that is no digit)
Field(s, i, most) ==
    LET n == DigitRun(s, i) IN SubSeq(s, i, i + (IF n < most THEN n ELSE most) - 1)

BadTimestamp(timestamp) ==
    Raise("ValueError", <<"time data does not match format", timestamp>>)

\* _strptime: %Y is \d\d\d\d; %m, %d, %H, %M, %S are one or two digits in
\* 1..12, 1..31, 0..23, 0..59, 0..61; %f is one to six digits; the literals
\* must be there and nothing may follow; datetime() then checks the date
strptime(s) ==
    LET Y  == Field(s, 1, 4)
        pm == 1 + Len(Y) + 1
        m  == Field(s, pm, 2)
        pd == pm + Len(m) + 1
        d  == Field(s, pd, 2)
        pH == pd + Len(d) + 1
        H  == Field(s, pH, 2)
        pM == pH + Len(H) + 1
        M  == Field(s, pM, 2)
        pS == pM + Len(M) + 1
        S  == Field(s, pS, 2)
        pf == pS + Len(S) + 1
        f  == Field(s, pf, 6)
        pz == pf + Len(f)
        At(i, c) == i <= Len(s) /\ s[i] = c
        year == DecimalValue(Y)
        month == DecimalValue(m)
        day == DecimalValue(d)
    IN  IF /\ Len(Y) = 4
           /\ At(pm - 1, "-") /\ Len(m) > 0 /\ month \in 1..12
           /\ At(pd - 1, "-") /\ Len(d) > 0 /\ day \in 1..31
           /\ At(pH - 1, "T") /\ Len(H) > 0 /\ DecimalValue(H) \in 0..23
           /\ At(pM - 1, ":") /\ Len(M) > 0 /\ DecimalValue(M) \in 0..59
           /\ At(pS - 1, ":") /\ Len(S) > 0 /\ DecimalValue(S) \in 0..61
           /\ At(pf - 1, ".") /\ Len(f) > 0
           /\ SubSeq(s, pz, Len(s)) = <<"+", "0", "0", ":", "0", "0">>
        THEN IF /\ year >= 1
                /\ day <= DaysInMonth(year, month)
                /\ DecimalValue(S) <= 59
             THEN Ok([day |-> ToOrdinal(year, month, day),
                      second |-> DecimalValue(H) * 3600 + DecimalValue(M) * 60
                                   + DecimalValue(S),
                      microsecond |-> DecimalValue(f) * Pow10(6 - Len(f))])
             ELSE Raise("ValueError", <<"field out of range", s>>)
        ELSE BadTimestamp(s)

(***************************************************************************)
(* JSON values as json.loads returns them.                                 *)
(***************************************************************************)
\* a value is the pair of its type and its content, None the type alone
JNull == <<"null">>

JStr(s) == <<"str", s>>

JNum(n) == <<"num", n>>

JBool(b) == <<"bool", b>>

JArr(a) == <<"arr", a>>

\* a dict: a function from its keys to their values
JObj(f) == <<"obj", f>>

\* the outputs dict, whose key order the code iterates: a sequence of
\* <<key, value>> pairs in document order
JOrdered(pairs) == <<"odict", pairs>>

TypeOf(x) == x[1]

ValueOf(x) == x[2]

EmptyDict == [k \in {} |-> JNull]

\* the dict with the items of f and, for the keys f lacks, those of g
f ++ g == [k \in DOMAIN f \cup DOMAIN g |-> IF k \in DOMAIN f THEN f[k] ELSE g[k]]

None == JNull

\* the characters of the keys the code looks up with `in`
KeyChars(k) ==
    CASE k = "error" -> <<"e", "r", "r", "o", "r">>
      [] k = "details" -> <<"d", "e", "t", "a", "i", "l", "s">>
      [] k = "message" -> <<"m", "e", "s", "s", "a", "g", "e">>
      [] k = "duration" -> <<"d", "u", "r", "a", "t", "i", "o", "n">>

OdictKeys(x) == {ValueOf(x)[i][1] : i \in 1..Len(ValueOf(x))}

OdictGet(x, k) == ValueOf(x)[CHOOSE i \in 1..Len(ValueOf(x)) : ValueOf(x)[i][1] = k][2]

\* `k in x`: key of a dict, element of a list, substring of a str;
\* any other operand is not iterable
py_in(k, x) ==
    CASE TypeOf(x) = "obj" -> Ok(k \in DOMAIN ValueOf(x))
      [] TypeOf(x) = "odict" -> Ok(k \in OdictKeys(x))
      [] TypeOf(x) = "arr" -> Ok(\E i \in 1..Len(ValueOf(x)) : ValueOf(x)[i] = JStr(KeyChars(k)))
      [] TypeOf(x) = "str" ->
            Ok(\E i \in 0..(Len(ValueOf(x)) - Len(KeyChars(k))) :
                  SubSeq(ValueOf(x), i + 1, i + Len(KeyChars(k))) = KeyChars(k))
      [] OTHER -> Raise("TypeError", <<"argument is not iterable", TypeOf(x)>>)

\* x[k] with a str key: the value of a dict, KeyError when it has no such
\* key; any other operand cannot be subscripted by a str
py_getitem(x, k) ==
    CASE TypeOf(x) = "obj" ->
            IF k \in DOMAIN ValueOf(x) THEN Ok(ValueOf(x)[k]) ELSE Raise("KeyError", k)
      [] TypeOf(x) = "odict" ->
            IF k \in OdictKeys(x) THEN Ok(OdictGet(x, k)) ELSE Raise("KeyError", k)
      [] OTHER -> Raise("TypeError", <<"not subscriptable by str", TypeOf(x)>>)

\* a + b on two JSON values: defined on two str
py_add(a, b) ==
    IF TypeOf(a) = "str" /\ TypeOf(b) = "str" THEN Ok(JStr(ValueOf(a) \o ValueOf(b)))
    ELSE Raise("TypeError", <<"unsupported operand types for +", TypeOf(a), TypeOf(b)>>)

\* timestamp_to_datetime: strptime takes a str
timestamp_to_datetime(timestamp) ==
    IF TypeOf(timestamp) = "str" THEN strptime(ValueOf(timestamp))
    ELSE Raise("TypeError", <<"strptime() argument 1 must be str", TypeOf(timestamp)>>)

\* re.match takes a str
DurationOf(duration_string) ==
    IF TypeOf(duration_string) = "str" THEN duration_to_timedelta(ValueOf(duration_string))
    ELSE Raise("TypeError", <<"expected string or bytes-like object",
                              TypeOf(duration_string)>>)

\* timestamp + self.duration where the code subtracts
datetime_sub_Added(timestamp, duration) ==
    LET us == timestamp.microsecond + duration.microseconds
        sec == timestamp.second + duration.seconds + (us \div 1000000)
        day == timestamp.day + duration.days + (sec \div 86400)
    IN  IF day < 1 \/ day > 3652059
        THEN Raise("OverflowError", <<"date value out of range">>)
        ELSE Ok([day |-> day, second |-> sec % 86400,
                 microsecond |-> us % 1000000])

\* timestamp - self.duration: datetime.__sub__(timedelta); OverflowError
\* outside datetime.min .. datetime.max
datetime_sub(timestamp, duration) ==
    LET us == timestamp.microsecond - duration.microseconds
        sec == timestamp.second - duration.seconds + (us \div 1000000)
        day == timestamp.day - duration.days + (sec \div 86400)
    IN  IF day < 1 \/ day > 3652059
        THEN Raise("OverflowError", <<"date value out of range">>)
        ELSE Ok([day |-> day, second |-> sec % 86400,
                 microsecond |-> us % 1000000])

(***************************************************************************)
(* class Operation                                                         *)
(***************************************************************************)
\* an OperationError object: its class and its attributes
OperationError(code, message) ==
    <<"OperationError", [code |-> code, message |-> message]>>

Newline == JStr(<<"\n">>)

RECURSIVE AppendDetailMessages(_, _, _)
\* for error_detail in error_details:
\*     if 'message' in error_detail:
\*         error_message = error_message + '\n' + error_detail['message']
\* over the elements of a list, from element i on
AppendDetailMessages(error_message, error_details, i) ==
    IF i > Len(error_details) THEN Ok(error_message)
    ELSE
      LET error_detail == error_details[i]
          has == py_in("message", error_detail)
      IN  IF ~has.ok THEN has
          ELSE IF ~has.val
          THEN AppendDetailMessages(error_message, error_details, i + 1)
          ELSE
            LET withNewline == py_add(error_message, Newline)
                detailMessage == py_getitem(error_detail, "message")
            IN  IF ~withNewline.ok THEN withNewline
                ELSE IF ~detailMessage.ok THEN detailMessage
                ELSE
                  LET joined == py_add(withNewline.val, detailMessage.val)
                  IN  IF ~joined.ok THEN joined
                      ELSE AppendDetailMessages(joined.val, error_details, i + 1)

\* the for loop over error_details: a list is iterated element by element;
\* None, a number and a bool are not iterable
ForEachDetail(error_message, error_details) ==
    IF TypeOf(error_details) = "arr"
    THEN AppendDetailMessages(error_message, ValueOf(error_details), 1)
    ELSE Raise("TypeError", <<"object is not iterable", TypeOf(error_details)>>)

\* the branch `elif 'error' in status_message`
ErrorShape(status_message) ==
    LET status_error == py_getitem(status_message, "error")
    IN  IF ~status_error.ok THEN status_error
        ELSE
          LET error_message == py_getitem(status_error.val, "message")
          IN  IF ~error_message.ok THEN error_message
              ELSE
                LET hasDetails == py_in("details", status_error.val)
                    error_details == py_getitem(status_error.val, "details")
                    message ==
                      IF hasDetails.val
                      THEN (IF error_details.ok
                            THEN ForEachDetail(error_message.val, error_details.val)
                            ELSE error_details)
                      ELSE error_message
                    code == py_getitem(status_error.val, "code")
                IN  IF ~hasDetails.ok THEN hasDetails
                    ELSE IF ~message.ok THEN message
                    ELSE IF ~code.ok THEN code
                    ELSE Ok(OperationError(code.val, message.val))

\* the branch `elif 'details' in status_message`
DetailsShape(status_message) ==
    LET hasMessage == py_in("message", status_message)
        ownMessage == py_getitem(status_message, "message")
        error_message ==
          IF hasMessage.val THEN ownMessage ELSE Ok(JStr(<<>>))
        hasDetails == py_in("details", status_message)
        error_details == py_getitem(status_message, "details")
        message ==
          IF hasDetails.val
          THEN (IF error_details.ok
                THEN ForEachDetail(error_message.val, error_details.val)
                ELSE error_details)
          ELSE error_message
        code == py_getitem(status_message, "code")
    IN  IF ~hasMessage.ok THEN hasMessage
        ELSE IF ~error_message.ok THEN error_message
        ELSE IF ~hasDetails.ok THEN hasDetails
        ELSE IF ~message.ok THEN message
        ELSE IF ~code.ok THEN code
        ELSE Ok(OperationError(code.val, message.val))

\* the 'details' test made before the 'error' test
StatusError_DetailsFirst(properties) ==
    LET status_message == py_getitem(properties, "statusMessage")
    IN  IF ~status_message.ok THEN status_message
        ELSE IF status_message.val = None THEN Ok(None)
        ELSE IF TypeOf(status_message.val) = "str"
        THEN Ok(OperationError(None, status_message.val))
        ELSE
          LET hasError == py_in("error", status_message.val)
              hasDetails == py_in("details", status_message.val)
          IN  IF ~hasDetails.ok THEN hasDetails
              ELSE IF hasDetails.val THEN DetailsShape(status_message.val)
              ELSE IF ~hasError.ok THEN hasError
              ELSE IF hasError.val THEN ErrorShape(status_message.val)
              ELSE Ok(None)

\* self.error: from `self.error = None` to the end of the if statement
StatusError(properties) ==
    LET status_message == py_getitem(properties, "statusMessage")
    IN  IF ~status_message.ok THEN status_message
        ELSE IF status_message.val = None THEN Ok(None)
        ELSE IF TypeOf(status_message.val) = "str"
        THEN Ok(OperationError(None, status_message.val))
        ELSE
          LET hasError == py_in("error", status_message.val)
              hasDetails == py_in("details", status_message.val)
          IN  IF ~hasError.ok THEN hasError
              ELSE IF hasError.val THEN ErrorShape(status_message.val)
              ELSE IF ~hasDetails.ok THEN hasDetails
              ELSE IF hasDetails.val THEN DetailsShape(status_message.val)
              ELSE Ok(None)

\* self.resource_type, self.resource_name
TargetResource(properties) ==
    LET target_resource == py_getitem(properties, "targetResource")
    IN  IF ~target_resource.ok THEN target_resource
        ELSE IF target_resource.val # None
        THEN
          LET resource_type == py_getitem(target_resource.val, "resourceType")
              resource_name == py_getitem(target_resource.val, "resourceName")
          IN  IF ~resource_type.ok THEN resource_type
              ELSE IF ~resource_name.ok THEN resource_name
              ELSE Ok([resource_type |-> resource_type.val,
                       resource_name |-> resource_name.val])
        ELSE Ok([resource_type |-> None, resource_name |-> None])

\* duration_string: properties['duration'] when properties has the key,
\* else properties['additionalProperties']['duration']
DurationString(properties) ==
    LET hasDuration == py_in("duration", properties)
    IN  IF ~hasDuration.ok THEN hasDuration
        ELSE IF hasDuration.val THEN py_getitem(properties, "duration")
        ELSE
          LET additional_properties == py_getitem(properties, "additionalProperties")
          IN  IF ~additional_properties.ok THEN additional_properties
              ELSE py_getitem(additional_properties.val, "duration")

\* Operation.__init__: the attributes of the built object, or the
\* exception that leaves the constructor
Operation(operation) ==
    LET id == py_getitem(operation, "operationId")
    IN  IF ~id.ok THEN id ELSE
    LET properties == py_getitem(operation, "properties")
    IN  IF ~properties.ok THEN properties ELSE
    LET provisioning_state == py_getitem(properties.val, "provisioningState")
    IN  IF ~provisioning_state.ok THEN provisioning_state ELSE
    LET timestamp_string == py_getitem(properties.val, "timestamp")
    IN  IF ~timestamp_string.ok THEN timestamp_string ELSE
    LET timestamp == timestamp_to_datetime(timestamp_string.val)
    IN  IF ~timestamp.ok THEN timestamp ELSE
    LET target == TargetResource(properties.val)
    IN  IF ~target.ok THEN target ELSE
    LET error == StatusError(properties.val)
    IN  IF ~error.ok THEN error ELSE
    LET duration_string == DurationString(properties.val)
    IN  IF ~duration_string.ok THEN duration_string ELSE
    LET duration == DurationOf(duration_string.val)
    IN  IF ~duration.ok THEN duration ELSE
    LET start_time == datetime_sub(timestamp.val, duration.val)
    IN  IF ~start_time.ok THEN start_time ELSE
        Ok([id |-> id.val,
            provisioning_state |-> provisioning_state.val,
            resource_type |-> target.val.resource_type,
            resource_name |-> target.val.resource_name,
            error |-> error.val,
            duration |-> duration.val,
            end_time |-> timestamp.val,
            start_time |-> start_time.val])

(***************************************************************************)
(* class Deployment, class DeploymentOutput                                *)
(***************************************************************************)
DeploymentOutput(name, type, value) ==
    [name |-> name, type |-> type, value |-> value]

RECURSIVE AppendOutputs(_, _, _)
\* for key in cli_outputs.keys(): ... self.outputs.append(output)
AppendOutputs(outputs, cli_outputs, i) ==
    IF i > Len(cli_outputs) THEN Ok(outputs)
    ELSE
      LET key == cli_outputs[i][1]
          output_entry == cli_outputs[i][2]
          type == py_getitem(output_entry, "type")
          value == py_getitem(output_entry, "value")
      IN  IF ~type.ok THEN type
          ELSE IF ~value.ok THEN value
          ELSE AppendOutputs(
                 Append(outputs, DeploymentOutput(key, type.val, value.val)),
                 cli_outputs, i + 1)

\* `if cli_outputs:` None and the empty dict are false
Truthy(x) ==
    CASE TypeOf(x) = "null" -> FALSE
      [] TypeOf(x) = "odict" -> Len(ValueOf(x)) > 0
      [] TypeOf(x) = "obj" -> DOMAIN ValueOf(x) # {}
      [] TypeOf(x) = "arr" -> Len(ValueOf(x)) > 0
      [] TypeOf(x) = "str" -> Len(ValueOf(x)) > 0
      [] TypeOf(x) = "num" -> ValueOf(x) # 0
      [] TypeOf(x) = "bool" -> ValueOf(x)

\* self.outputs
Outputs(properties) ==
    LET cli_outputs == py_getitem(properties, "outputs")
    IN  IF ~cli_outputs.ok THEN cli_outputs
        ELSE IF ~Truthy(cli_outputs.val) THEN Ok(<<>>)
        ELSE IF TypeOf(cli_outputs.val) = "odict"
        THEN AppendOutputs(<<>>, ValueOf(cli_outputs.val), 1)
        ELSE Raise("AttributeError", <<"object has no attribute 'keys'",
                                       TypeOf(cli_outputs.val)>>)

\* Deployment.__init__
Deployment(deployment) ==
    LET id == py_getitem(deployment, "id")
    IN  IF ~id.ok THEN id ELSE
    LET name == py_getitem(deployment, "name")
    IN  IF ~name.ok THEN name ELSE
    LET properties == py_getitem(deployment, "properties")
    IN  IF ~properties.ok THEN properties ELSE
    LET provisioning_state == py_getitem(properties.val, "provisioningState")
    IN  IF ~provisioning_state.ok THEN provisioning_state ELSE
    LET duration_string == DurationString(properties.val)
    IN  IF ~duration_string.ok THEN duration_string ELSE
    LET duration == DurationOf(duration_string.val)
    IN  IF ~duration.ok THEN duration ELSE
    LET timestamp_string == py_getitem(properties.val, "timestamp")
    IN  IF ~timestamp_string.ok THEN timestamp_string ELSE
    LET timestamp == timestamp_to_datetime(timestamp_string.val)
    IN  IF ~timestamp.ok THEN timestamp ELSE
    LET start_time == datetime_sub(timestamp.val, duration.val)
    IN  IF ~start_time.ok THEN start_time ELSE
    LET outputs == Outputs(properties.val)
    IN  IF ~outputs.ok THEN outputs ELSE
        Ok([id |-> id.val,
            name |-> name.val,
            provisioning_state |-> provisioning_state.val,
            duration |-> duration.val,
            end_time |-> timestamp.val,
            start_time |-> start_time.val,
            outputs |-> outputs.val])

(***************************************************************************)
(* watch_deployments.py                                                    *)
(***************************************************************************)
\* o.name on a built object: the attribute, AttributeError when the
\* constructor set no such attribute
getattr(o, name) ==
    IF name \in DOMAIN o THEN Ok(o[name])
    ELSE Raise("AttributeError", name)

\* a < b on two datetimes
DatetimeLess(a, b) ==
    \/ a.day < b.day
    \/ a.day = b.day /\ a.second < b.second
    \/ a.day = b.day /\ a.second = b.second /\ a.microsecond < b.microsecond

color_for_state(state) ==
    IF state = JStr(<<"Succeeded">>) THEN "bright black"
    ELSE IF state = JStr(<<"Failed">>) THEN "red"
    ELSE IF state = JStr(<<"Running">>) THEN "green"
    ELSE "reset"

RECURSIVE MapOperation(_, _)
\* map(Operation, cli_operations), consumed from element i on: the built
\* objects, or the exception of the first constructor that raises
MapOperation(cli_operations, i) ==
    IF i > Len(cli_operations) THEN Ok(<<>>)
    ELSE
      Then(Operation(cli_operations[i]), LAMBDA o :
      Then(MapOperation(cli_operations, i + 1), LAMBDA rest :
      Ok(<<o>> \o rest)))

RECURSIVE TimestampKeys(_, _)
\* key = lambda o: o.timestamp, called once for every element in order
TimestampKeys(objects, i) ==
    IF i > Len(objects) THEN Ok(<<>>)
    ELSE
      Then(getattr(objects[i], "timestamp"), LAMBDA key :
      Then(TimestampKeys(objects, i + 1), LAMBDA rest :
      Ok(<<key>> \o rest)))

RECURSIVE InsertByKey(_, _)
\* pair p put into the pairs sorted so far, behind every pair whose key is
\* not greater (sorted() is stable)
InsertByKey(pairs, p) ==
    IF Len(pairs) = 0 THEN <<p>>
    ELSE IF DatetimeLess(p[1], pairs[Len(pairs)][1])
    THEN Append(InsertByKey(SubSeq(pairs, 1, Len(pairs) - 1), p), pairs[Len(pairs)])
    ELSE Append(pairs, p)

RECURSIVE SortPairs(_, _)
SortPairs(pairs, n) ==
    IF n = 0 THEN <<>> ELSE InsertByKey(SortPairs(pairs, n - 1), pairs[n])

\* sorted(objects, key = lambda o: o.timestamp)
sorted(objects) ==
    LET keys == TimestampKeys(objects, 1)
    IN  IF ~keys.ok THEN keys
        ELSE LET pairs == [i \in 1..Len(objects) |-> <<keys.val[i], objects[i]>>]
                 inOrder == SortPairs(pairs, Len(pairs))
             IN  Ok([i \in 1..Len(inOrder) |-> inOrder[i][2]])

RECURSIVE OperationRows(_, _)
\* [o.provisioning_state, o.resource_type, o.resource_name, o.timestamp,
\*  o.duration, color_for_state(o.provisioning_state)] for every operation
OperationRows(operations, i) ==
    IF i > Len(operations) THEN Ok(<<>>)
    ELSE
      LET o == operations[i]
      IN  Then(getattr(o, "timestamp"), LAMBDA timestamp :
          Then(OperationRows(operations, i + 1), LAMBDA rest :
          Ok(<<[State |-> o.provisioning_state,
                ResourceType |-> o.resource_type,
                ResourceName |-> o.resource_name,
                StartTime |-> timestamp,
                Duration |-> o.duration,
                color |-> color_for_state(o.provisioning_state)]>>
             \o rest)))

\* watch_deployment, given what the two cli_as_json calls return or raise:
\* the header line printed and the rows handed to Table, or the exception
watch_deployment(show, list) ==
    Then(show, LAMBDA cli_deployment :
    Then(Deployment(cli_deployment), LAMBDA deployment :
    Then(list, LAMBDA cli_operations :
    IF TypeOf(cli_operations) # "arr"
    THEN Raise("TypeError", <<"object is not iterable", TypeOf(cli_operations)>>)
    ELSE
    Then(MapOperation(ValueOf(cli_operations), 1), LAMBDA built :
    Then(sorted(built), LAMBDA operations :
    Then(OperationRows(operations, 1), LAMBDA operation_rows :
    Ok([printed |-> [name |-> deployment.name,
                     provisioning_state |-> deployment.provisioning_state,
                     start_time |-> deployment.start_time,
                     duration |-> deployment.duration],
        table |-> operation_rows])))))))

(***************************************************************************)
(* Inputs: duration strings.                                               *)
(***************************************************************************)
BodyChars == {"1", "2", ".", "H", "M", "-"}

SeqsUpTo(S, n) == UNION {[1..k -> S] : k \in 0..n}

PT(body) == <<"P", "T">> \o body \o <<"S">>

\* a body as it is: "PT" body "S"; without the closing "S"; without the
\* "T"; followed by a newline
Frames == {"PT_S", "PT_", "P_S", "PT_S\\n"}

Framed(body, frame) ==
    CASE frame = "PT_S" -> PT(body)
      [] frame = "PT_" -> <<"P", "T">> \o body
      [] frame = "P_S" -> <<"P">> \o body \o <<"S">>
      [] frame = "PT_S\\n" -> PT(body) \o <<"\n">>

(***************************************************************************)
(* Inputs: the JSON the CLI returns.                                       *)
(***************************************************************************)
Timestamp(date, time, fraction) ==
    date \o <<"T">> \o time \o <<".">> \o fraction
         \o <<"+", "0", "0", ":", "0", "0">>

Noon == <<"1", "2", ":", "0", "0", ":", "0", "0">>

Midnight == <<"0", "0", ":", "0", "0", ":", "0", "0">>

\* 2021-05-01T12:00:00.250000+00:00
TsMay ==
    Timestamp(<<"2", "0", "2", "1", "-", "0", "5", "-", "0", "1">>, Noon,
              <<"2", "5", "0", "0", "0", "0">>)

\* 2020-03-01T00:00:00.000000+00:00
TsMarch ==
    Timestamp(<<"2", "0", "2", "0", "-", "0", "3", "-", "0", "1">>, Midnight,
              <<"0", "0", "0", "0", "0", "0">>)

\* 0001-01-01T00:00:00.000000+00:00, datetime.min
TsMin ==
    Timestamp(<<"0", "0", "0", "1", "-", "0", "1", "-", "0", "1">>, Midnight,
              <<"0", "0", "0", "0", "0", "0">>)

\* 2021-05-01T12:00:00Z
TsZulu ==
    <<"2", "0", "2", "1", "-", "0", "5", "-", "0", "1", "T">> \o Noon \o <<"Z">>

\* 2021-02-30T12:00:00.5+00:00
TsFeb30 ==
    Timestamp(<<"2", "0", "2", "1", "-", "0", "2", "-", "3", "0">>, Noon, <<"5">>)

TimestampValues ==
    {JStr(TsMay), JStr(TsMarch), JStr(TsMin), JStr(TsZulu), JStr(TsFeb30), JNull}

Text(name) == JStr(<<name>>)

Maybe(key, values) == {EmptyDict} \cup {key :> v : v \in values}

\* entries of a details sequence: two with a message, one without
DetailEntries ==
    {JObj([message |-> Text("d1")]),
     JObj([message |-> Text("d2")]),
     JObj([code |-> Text("Inner")])}

DetailLists == {JArr(l) : l \in SeqsUpTo(DetailEntries, MaxDetails)}

ErrorObjects ==
    {JObj(c ++ m ++ d) :
        c \in Maybe("code", {Text("X"), JNull}),
        m \in Maybe("message", {Text("m1")}),
        d \in Maybe("details", DetailLists \cup {JNull})}

TopLevelExtras ==
    {EmptyDict,
     [details |-> JArr(<<JObj([message |-> Text("top-d")])>>),
      message |-> Text("top"),
      code |-> Text("Y")]}

ErrorWrapped ==
    {JObj(("error" :> e) ++ x) :
        e \in ErrorObjects \cup {JNull, Text("failed")}, x \in TopLevelExtras}

DetailsDirect ==
    {JObj(d ++ m ++ c) :
        d \in {"details" :> l : l \in DetailLists \cup {JNull}},
        m \in Maybe("message", {Text("top")}),
        c \in Maybe("code", {Text("Y"), JNull})}

OtherStatusMessages ==
    {JNull, JStr(<<>>), Text("boom"), JStr(KeyChars("error")),
     JNum(42), JNum(0), JBool(TRUE), JBool(FALSE),
     JArr(<<>>), JArr(<<JNum(1)>>), JArr(<<JStr(KeyChars("error"))>>),
     JArr(<<JStr(KeyChars("details"))>>),
     JObj(EmptyDict), JObj([message |-> Text("top")]), JObj([code |-> Text("Y")])}

StatusMessages == ErrorWrapped \cup DetailsDirect \cup OtherStatusMessages

FullTarget ==
    JObj([resourceType |-> Text("Microsoft.Storage/storageAccounts"),
          resourceName |-> Text("store1")])

TargetResources == {JNull, FullTarget, JObj([resourceType |-> Text("t")])}

\* duration strings of the payloads
PayloadDurations ==
    {JStr(PT(<<"1", ".", "5">>)),                 \* PT1.5S
     JStr(PT(<<"-", "1">>)),                      \* PT-1S
     JStr(PT(<<"2", "M", "1">>)),                 \* PT2M1S
     JStr(PT(<<"1", "H", "2", "M", "1">>)),       \* PT1H2M1S
     JStr(<<"1", ".", "5">>),                     \* 1.5
     JNull}

\* PT2M1.5S
FallbackDuration == JStr(PT(<<"2", "M", "1", ".", "5">>))

AdditionalProperties ==
    {JNull, JObj(EmptyDict), JObj([duration |-> FallbackDuration]),
     JObj([duration |-> JStr(PT(<<"-", "2">>))])}

DefaultTimes ==
    [provisioningState |-> Text("Succeeded"),
     timestamp |-> JStr(TsMay),
     duration |-> JStr(PT(<<"1", ".", "5">>))]

DefaultOperationProperties ==
    DefaultTimes ++ [targetResource |-> FullTarget, statusMessage |-> JNull]

Without(f, key) == [k \in DOMAIN f \ {key} |-> f[k]]

OperationOf(properties) ==
    JObj([operationId |-> Text("op1"), properties |-> JObj(properties)])

\* every duration, fallback and timestamp
TimedProperties(defaults) ==
    {d ++ a ++ ("timestamp" :> ts) ++ Without(defaults, "duration") :
        d \in Maybe("duration", PayloadDurations),
        a \in Maybe("additionalProperties", AdditionalProperties),
        ts \in TimestampValues}

\* every short duration string
ShortDurationProperties(defaults) ==
    {("duration" :> JStr(PT(b))) ++ ("timestamp" :> ts) ++ defaults :
        b \in SeqsUpTo(BodyChars, MaxBody - 2), ts \in {JStr(TsMay), JStr(TsMarch)}}

\* every statusMessage and targetResource, with the duration in either place
OperationShapes ==
    {s ++ t ++ d ++ Without(Without(Without(DefaultOperationProperties,
                      "statusMessage"), "targetResource"), "duration") :
        s \in Maybe("statusMessage", StatusMessages),
        t \in Maybe("targetResource", TargetResources),
        d \in {[duration |-> JStr(PT(<<"1", ".", "5">>))],
               [additionalProperties |-> JObj([duration |-> FallbackDuration])]}}

\* a required key missing, or a value of another type in its place
BrokenOperations ==
    {JObj([properties |-> JObj(DefaultOperationProperties)]),
     JObj([operationId |-> Text("op1")]),
     JObj([operationId |-> Text("op1"), properties |-> JNull]),
     OperationOf(Without(DefaultOperationProperties, "provisioningState")),
     OperationOf(Without(DefaultOperationProperties, "timestamp")),
     JArr(<<>>)}

OperationPayloads ==
    {OperationOf(p) : p \in TimedProperties(DefaultOperationProperties)
                            \cup ShortDurationProperties(DefaultOperationProperties)
                            \cup OperationShapes}
      \cup BrokenOperations

OutputEntry == JObj([type |-> Text("String"), value |-> Text("v")])

OutputsValues ==
    {JNull,
     JOrdered(<<>>),
     JOrdered(<<<<"b", OutputEntry>>>>),
     JOrdered(<<<<"b", OutputEntry>>,
                <<"a", JObj([type |-> Text("Int"), value |-> JNum(7)])>>>>),
     JOrdered(<<<<"b", JObj([type |-> Text("String")])>>>>)}

DefaultDeploymentProperties == DefaultTimes ++ [outputs |-> JNull]

DeploymentOf(properties) ==
    JObj([id |-> Text("/subscriptions/s/deployments/d1"), name |-> Text("d1"),
          properties |-> JObj(properties)])

DeploymentShapes ==
    {o ++ d ++ Without(Without(DefaultDeploymentProperties, "outputs"), "duration") :
        o \in Maybe("outputs", OutputsValues),
        d \in {[duration |-> JStr(PT(<<"1", ".", "5">>))],
               [additionalProperties |-> JObj([duration |-> FallbackDuration])]}}

BrokenDeployments ==
    {JObj([name |-> Text("d1"), properties |-> JObj(DefaultDeploymentProperties)]),
     JObj([id |-> Text("i"), properties |-> JObj(DefaultDeploymentProperties)]),
     JObj([id |-> Text("i"), name |-> Text("d1")]),
     DeploymentOf(Without(DefaultDeploymentProperties, "provisioningState")),
     DeploymentOf(Without(DefaultDeploymentProperties, "timestamp"))}

DeploymentPayloads ==
    {DeploymentOf(p) : p \in TimedProperties(DefaultDeploymentProperties)
                             \cup ShortDurationProperties(DefaultDeploymentProperties)
                             \cup DeploymentShapes}
      \cup BrokenDeployments

\* what run_cli_command raises instead of returning JSON: the command
\* failed, printed nothing, or printed no JSON
CliFailures ==
    {Raise("CalledProcessError", <<>>),
     Raise("CLIError", <<"Command returned an unexpected empty string.">>),
     Raise("JSONDecodeError", <<>>)}

TimedOperation(id, ts, duration, state) ==
    JObj([operationId |-> Text(id),
          properties |-> JObj([provisioningState |-> Text(state),
                               timestamp |-> JStr(ts),
                               duration |-> JStr(duration),
                               targetResource |-> FullTarget,
                               statusMessage |-> JNull])])

\* four operations that build (started 11:59:58.75, 11:57:59.25,
\* 2020-02-29 23:59:58.5 and 2020-03-01 00:00:01) and one that does not
WatchedOperations ==
    {TimedOperation("op1", TsMay, PT(<<"1", ".", "5">>), "Succeeded"),
     TimedOperation("op2", TsMay, PT(<<"2", "M", "1", ".">>), "Failed"),
     TimedOperation("op3", TsMarch, PT(<<"1", ".", "5">>), "Running"),
     TimedOperation("op4", TsMarch, PT(<<"-", "1">>), "Accepted"),
     TimedOperation("op5", TsZulu, PT(<<"1">>), "Succeeded")}

ListOutcomes ==
    CliFailures \cup {Ok(JNull)}
      \cup {Ok(JArr(l)) : l \in SeqsUpTo(WatchedOperations, MaxOps)}

ShowOutcomes ==
    CliFailures
      \cup {Ok(DeploymentOf(DefaultDeploymentProperties)),
            Ok(DeploymentOf(Without(DefaultDeploymentProperties, "outputs")))}

(***************************************************************************)
(* The program.  A run makes one call and exits: "called" names the        *)
(* function once it has run, "arg" its argument and "ret" what it returned *)
(* or raised.                                                              *)
(***************************************************************************)
Init == called = "none" /\ arg = <<>> /\ ret = Ok(<<>>)

CallDurationToTimedelta ==
    /\ called = "none"
    /\ \E n \in 0..MaxBody, frame \in Frames :
          \E body \in [1..n -> BodyChars] :
             /\ called' = "duration_to_timedelta"
             /\ arg' = Framed(body, frame)
             /\ ret' = duration_to_timedelta(Framed(body, frame))

BuildOperation ==
    /\ called = "none"
    /\ \E operation \in OperationPayloads :
          /\ called' = "Operation"
          /\ arg' = operation
          /\ ret' = Operation(operation)

BuildDeployment ==
    /\ called = "none"
    /\ \E deployment \in DeploymentPayloads :
          /\ called' = "Deployment"
          /\ arg' = deployment
          /\ ret' = Deployment(deployment)

WatchDeployment ==
    /\ called = "none"
    /\ \E show \in ShowOutcomes, list \in ListOutcomes :
          /\ called' = "watch_deployment"
          /\ arg' = [show |-> show, list |-> list]
          /\ ret' = watch_deployment(show, list)

NextDuration == CallDurationToTimedelta

SpecDuration == Init /\ [][NextDuration]_vars

NextBuild == BuildOperation \/ BuildDeployment

SpecBuild == Init /\ [][NextBuild]_vars

NextWatch == WatchDeployment

SpecWatch == Init /\ [][NextWatch]_vars

Next == CallDurationToTimedelta \/ BuildOperation \/ BuildDeployment \/ WatchDeployment

Spec == Init /\ [][Next]_vars

(***************************************************************************)
(* What the specification says of the duration parser.                     *)
(***************************************************************************)
IsWholeText(t) == Len(t) > 0 /\ AllDigits(t)

\* digits with at most one decimal point among them
IsSecondsText(t) ==
    \/ IsWholeText(t)
    \/ /\ Len(t) > 1
       /\ \E i \in 1..Len(t) :
            /\ t[i] = "."
            /\ AllDigits(SubSeq(t, 1, i - 1))
            /\ AllDigits(SubSeq(t, i + 1, Len(t)))

HasFrame(s) == Len(s) >= 3 /\ s[1] = "P" /\ s[2] = "T" /\ s[Len(s)] = "S"

\* the readings of s as PT<seconds>S, PT<minutes>M<seconds>S or
\* PT<hours>H<minutes>M<seconds>S: the texts of its components
Readings(s) ==
    IF ~HasFrame(s) THEN {}
    ELSE
      LET b == SubSeq(s, 3, Len(s) - 1)
          Part(i, j) == SubSeq(b, i, j)
      IN  (IF IsSecondsText(b)
           THEN {[hours |-> <<>>, minutes |-> <<>>, seconds |-> b]}
           ELSE {})
          \cup
          {[hours |-> <<>>, minutes |-> Part(1, i - 1), seconds |-> Part(i + 1, Len(b))] :
              i \in {k \in 1..Len(b) : /\ b[k] = "M"
                                       /\ IsWholeText(Part(1, k - 1))
                                       /\ IsSecondsText(Part(k + 1, Len(b)))}}
          \cup
          {[hours |-> Part(1, ij[1] - 1),
            minutes |-> Part(ij[1] + 1, ij[2] - 1),
            seconds |-> Part(ij[2] + 1, Len(b))] :
              ij \in {p \in (1..Len(b)) \X (1..Len(b)) :
                        /\ p[1] < p[2]
                        /\ b[p[1]] = "H" /\ b[p[2]] = "M"
                        /\ IsWholeText(Part(1, p[1] - 1))
                        /\ IsWholeText(Part(p[1] + 1, p[2] - 1))
                        /\ IsSecondsText(Part(p[2] + 1, Len(b)))}}

IsAcceptedForm(s) == Readings(s) # {}

PointAt(t) ==
    IF \E i \in 1..Len(t) : t[i] = "."
    THEN CHOOSE i \in 1..Len(t) : t[i] = "."
    ELSE Len(t) + 1

\* hours * 3600 + minutes * 60 + seconds of a reading, as whole seconds
\* and millionths of a second
ExactSum(r) ==
    LET p == PointAt(r.seconds)
        fraction == SubSeq(r.seconds, p + 1, Len(r.seconds))
    IN  [whole |-> DecimalValue(r.hours) * 3600 + DecimalValue(r.minutes) * 60
                     + DecimalValue(SubSeq(r.seconds, 1, p - 1)),
         millionths |-> DecimalValue(fraction) * Pow10(6 - Len(fraction))]

SpanIs(span, sum) ==
    /\ span.days * 86400 + span.seconds = sum.whole
    /\ span.microseconds = sum.millionths

\* C1: every string of one of the three accepted forms is parsed, and the
\* span returned is exactly hours * 3600 + minutes * 60 + seconds.
C1_AcceptedFormsGiveExactSum ==
    (called = "duration_to_timedelta" /\ IsAcceptedForm(arg)) =>
        /\ ret.ok
        /\ \A r \in Readings(arg) : SpanIs(ret.val, ExactSum(r))

\* C2: every string that is not of one of the three accepted forms returns
\* no span and raises the format error (a ValueError, whatever its text),
\* and no string gives a negative span.
C2_OtherInputsRaiseFormatError ==
    called = "duration_to_timedelta" =>
        /\ ~IsAcceptedForm(arg) => (~ret.ok /\ ret.exc = "ValueError")
        /\ ret.ok => ret.val.days >= 0

(***************************************************************************)
(* What the specification says of the builders.                            *)
(***************************************************************************)
Built == called \in {"Operation", "Deployment"} /\ ret.ok

\* the properties dict of the payload of a built record
Properties == ValueOf(ValueOf(arg).properties)

\* C3: every built Operation and Deployment has start_time <= end_time.
C3_StartNotAfterEnd ==
    Built => ~DatetimeLess(ret.val.end_time, ret.val.start_time)

\* the duration string the specification selects: properties.duration when
\* it exists, else properties.additionalProperties.duration
SelectedDuration ==
    IF "duration" \in DOMAIN Properties THEN Properties.duration
    ELSE ValueOf(Properties.additionalProperties).duration

\* instant a plus span d, carrying microseconds into seconds and seconds
\* into days
Later(a, d) ==
    LET us == a.microsecond + d.microseconds
        sec == a.second + d.seconds + (IF us >= 1000000 THEN 1 ELSE 0)
    IN  [day |-> a.day + d.days + (IF sec >= 86400 THEN 1 ELSE 0),
         second |-> IF sec >= 86400 THEN sec - 86400 ELSE sec,
         microsecond |-> IF us >= 1000000 THEN us - 1000000 ELSE us]

\* C4: in every built Operation and Deployment, end_time is the instant
\* parsed from properties.timestamp, duration is the span parsed from the
\* selected duration string, and start_time is end_time minus duration
\* exactly (start_time plus duration is end_time).
C4_TimesDerivedFromPayload ==
    Built =>
        /\ ret.val.end_time = timestamp_to_datetime(Properties.timestamp).val
        /\ DurationOf(SelectedDuration).ok
        /\ ret.val.duration = DurationOf(SelectedDuration).val
        /\ Later(ret.val.start_time, ret.val.duration) = ret.val.end_time

\* C4 witness: a record is built from the fallback duration
\* (additionalProperties.duration) whose start_time needed a borrow from
\* the seconds and from the day of end_time.
C4_Witness ==
    /\ Built
    /\ ret.val.duration.microseconds > ret.val.end_time.microsecond
    /\ ret.val.start_time.day < ret.val.end_time.day
    /\ "duration" \notin DOMAIN Properties

\* the payload is a dict whose "properties" is a dict
HasProperties ==
    /\ called \in {"Operation", "Deployment"}
    /\ TypeOf(arg) = "obj"
    /\ "properties" \in DOMAIN ValueOf(arg)
    /\ TypeOf(ValueOf(arg).properties) = "obj"

Builder(payload) ==
    IF called = "Operation" THEN Operation(payload) ELSE Deployment(payload)

\* the payload with properties[key] set to value
With(key, value) ==
    JObj([ValueOf(arg) EXCEPT !.properties = JObj((key :> value) ++ Properties)])

OperationWithStatus ==
    /\ called = "Operation"
    /\ HasProperties
    /\ "statusMessage" \in DOMAIN Properties

StatusMessage == Properties.statusMessage

\* the same payload with a null statusMessage builds: nothing but the
\* statusMessage can make the build fail
RestBuilds == Operation(With("statusMessage", JNull)).ok

Has(x, key) == TypeOf(x) = "obj" /\ key \in DOMAIN ValueOf(x)

RECURSIVE Joined(_, _)
\* text followed, in sequence order, by a newline and the message of each
\* entry that has one
Joined(text, entries) ==
    IF Len(entries) = 0 THEN text
    ELSE
      LET front == Joined(text, SubSeq(entries, 1, Len(entries) - 1))
          last == entries[Len(entries)]
      IN  IF Has(last, "message")
          THEN front \o <<"\n">> \o ValueOf(ValueOf(last).message)
          ELSE front

DetailsOf(x) == IF Has(x, "details") THEN ValueOf(ValueOf(x).details) ELSE <<>>

\* an error object with a code, a text message and, if any, a sequence of
\* details
WellFormedError(e) ==
    /\ Has(e, "code") /\ Has(e, "message")
    /\ TypeOf(ValueOf(e).message) = "str"
    /\ Has(e, "details") => TypeOf(ValueOf(e).details) = "arr"

\* C5: a null statusMessage gives no error; a plain string gives
\* OperationError(None, the string); an object with key "error" gives code =
\* error.code and message = error.message followed, in order, by a newline
\* and the message of each entry of error.details that has one, also when
\* the object has a top-level "details" key; a well-formed error object
\* does not fail the build.
C5_ErrorExtractionPrecedence ==
    OperationWithStatus =>
        /\ (StatusMessage = JNull /\ ret.ok) => ret.val.error = None
        /\ TypeOf(StatusMessage) = "str" =>
              /\ ret.ok = RestBuilds
              /\ ret.ok => ret.val.error = OperationError(None, StatusMessage)
        /\ Has(StatusMessage, "error") =>
              LET e == ValueOf(StatusMessage).error
              IN  /\ (WellFormedError(e) /\ RestBuilds) => ret.ok
                  /\ ret.ok =>
                        /\ WellFormedError(e)
                        /\ ret.val.error =
                             OperationError(ValueOf(e).code,
                                 JStr(Joined(ValueOf(ValueOf(e).message), DetailsOf(e))))

\* C5 witness: an Operation is built from a statusMessage with both an
\* "error" key and a top-level "details" key, whose error.details holds an
\* entry without a message followed by one with a message.
C5_Witness ==
    /\ OperationWithStatus
    /\ ret.ok
    /\ Has(StatusMessage, "error")
    /\ Has(StatusMessage, "details")
    /\ Len(DetailsOf(ValueOf(StatusMessage).error)) = 2
    /\ ~Has(DetailsOf(ValueOf(StatusMessage).error)[1], "message")
    /\ Has(DetailsOf(ValueOf(StatusMessage).error)[2], "message")

\* C6: a statusMessage object with no "error" key and a "details" sequence
\* builds, with message = statusMessage.message if present else the empty
\* string, followed by the details messages, and code = statusMessage.code,
\* or null when there is no code.
C6_DetailsShapeBuilds ==
    (/\ OperationWithStatus
     /\ ~Has(StatusMessage, "error")
     /\ Has(StatusMessage, "details")
     /\ TypeOf(ValueOf(StatusMessage).details) = "arr"
     /\ RestBuilds) =>
        /\ ret.ok
        /\ ret.val.error =
             OperationError(
                 IF Has(StatusMessage, "code") THEN ValueOf(StatusMessage).code
                 ELSE None,
                 JStr(Joined(IF Has(StatusMessage, "message")
                             THEN ValueOf(ValueOf(StatusMessage).message)
                             ELSE <<>>,
                             DetailsOf(StatusMessage))))

\* C7: a non-null statusMessage of no recognized shape (not a string, no
\* "error" key, no "details" key: object, array, number or boolean) does
\* not fail the build and gives no error.
C7_UnrecognizedShapeGivesNoError ==
    (/\ OperationWithStatus
     /\ StatusMessage # JNull
     /\ TypeOf(StatusMessage) # "str"
     /\ ~Has(StatusMessage, "error")
     /\ ~Has(StatusMessage, "details")
     /\ RestBuilds) =>
        /\ ret.ok
        /\ ret.val.error = None

OptionalKeys ==
    IF called = "Operation" THEN {"targetResource", "statusMessage"}
    ELSE {"outputs"}

\* the payload with a null for every optional key its properties lack
WithNulls ==
    JObj([ValueOf(arg) EXCEPT !.properties =
            JObj([k \in OptionalKeys \ DOMAIN Properties |-> JNull] ++ Properties)])

\* C8: an absent targetResource, statusMessage or outputs key is treated
\* exactly like a null one: the build gives what it gives with the null.
C8_AbsentTreatedAsNull ==
    (HasProperties /\ OptionalKeys \ DOMAIN Properties # {}) =>
        ret = Builder(WithNulls)

\* neither properties.duration nor properties.additionalProperties.duration
NoDurationAnywhere ==
    /\ "duration" \notin DOMAIN Properties
    /\ ~(/\ "additionalProperties" \in DOMAIN Properties
         /\ Has(Properties.additionalProperties, "duration"))

\* C9: properties.duration is the string parsed when it exists, also when
\* additionalProperties.duration is present; additionalProperties.duration
\* is used only when properties.duration does not exist; with neither, the
\* build fails with a missing-field error (KeyError) and gives no record.
C9_DurationSourcePrecedence ==
    HasProperties =>
        /\ ret.ok =>
              /\ ~NoDurationAnywhere
              /\ DurationOf(SelectedDuration).ok
              /\ ret.val.duration = DurationOf(SelectedDuration).val
        /\ (/\ NoDurationAnywhere
            /\ Builder(With("duration", JStr(PT(<<"1">>)))).ok) =>
              (~ret.ok /\ ret.exc = "KeyError")

(***************************************************************************)
(* What the specification says of watch_deployment.                        *)
(***************************************************************************)
\* the CLI returned a deployment that builds and a non-empty list of
\* operation payloads that all build
WatchedValidOperations ==
    /\ called = "watch_deployment"
    /\ arg.show.ok /\ Deployment(arg.show.val).ok
    /\ arg.list.ok /\ TypeOf(arg.list.val) = "arr"
    /\ Len(ValueOf(arg.list.val)) > 0
    /\ \A i \in 1..Len(ValueOf(arg.list.val)) : Operation(ValueOf(arg.list.val)[i]).ok

\* C10: for a non-empty list of valid operation payloads, watch_deployment
\* hands Table one row per operation, ordered by start_time ascending, and
\* the sort does not fail.
C10_RowsSortedByStartTime ==
    WatchedValidOperations =>
        /\ ret.ok
        /\ LET payloads == ValueOf(arg.list.val)
               rows == ret.val.table
           IN  /\ Len(rows) = Len(payloads)
               /\ \E perm \in Permutations(1..Len(payloads)) :
                     \A i \in 1..Len(rows) :
                        LET o == Operation(payloads[perm[i]]).val
                        IN  /\ rows[i].State = o.provisioning_state
                            /\ rows[i].ResourceName = o.resource_name
                            /\ rows[i].StartTime = o.start_time
                            /\ rows[i].Duration = o.duration
               /\ \A i, j \in 1..Len(rows) :
                     i < j => ~DatetimeLess(rows[j].StartTime, rows[i].StartTime)

====
